---------------------------- MODULE Spec2Model ----------------------------
(***************************************************************************)
(* Model of the punctualBE transit-alert service: the planner              *)
(* (src/app/services.py), the due-alert selector, the three notification   *)
(* dispatchers, the completion check, the HTTP handlers                    *)
(* (src/app/routes.py) and the three polling jobs (src/scheduler.py).      *)
(*                                                                         *)
(* A datetime is the pair <<s, us>>: whole seconds since midnight of day 0 *)
(* and the microsecond component.  Python's None is the empty tuple, and   *)
(* an optional integer n is <<n>>.                                         *)
(***************************************************************************)
EXTENDS Integers, Sequences, FiniteSets, TLC

VARIABLES
    alerts,     \* the transit_alerts table: id -> row, for the rows that exist
    nextId,     \* the autoincrement primary key's next value
    now,        \* datetime.utcnow()
    pc,         \* per caller: where it stands in its handler
    todo,       \* per polling job: the alerts of its pass still to be dispatched
    call,       \* per caller: the dispatch in flight (alert id, kind, loaded row's time field)
    resp,       \* the HTTP response returned last: request, alert id, kind, outcome
    delivered,  \* per (id, kind): messages the delivery collaborator accepted
    nops,       \* HTTP requests issued so far
    probe       \* the planner's or the rounding's last input (and output), for the checks

vars == <<alerts, nextId, now, pc, todo, call, resp, delivered, nops, probe>>
mainVars == <<alerts, nextId, now, pc, todo, call, resp, delivered, nops>>

-----------------------------------------------------------------------------
(* Bounds of the model *)

MaxAlerts == 2
MaxOps == 2
MaxTicks == 1
MaxDay == 1

None == <<>>
Some(n) == <<n>>

HMS(h, m, s) == h * 3600 + m * 60 + s

-----------------------------------------------------------------------------
(* datetime and timedelta *)

DateTime(s, us) == <<s, us>>
Day(dt) == dt[1] \div 86400
Hour(dt) == (dt[1] \div 3600) % 24
Minute(dt) == (dt[1] \div 60) % 60
Second(dt) == dt[1] % 60
Microsecond(dt) == dt[2]

\* dt + timedelta(seconds = n); n may be negative
AddSeconds(dt, n) == <<dt[1] + n, dt[2]>>

\* dt.replace(minute = m, second = s, microsecond = us)
Replace(dt, m, s, us) == <<(dt[1] \div 3600) * 3600 + m * 60 + s, us>>

\* a <= b on datetimes
DtLeq(a, b) == a[1] < b[1] \/ (a[1] = b[1] /\ a[2] <= b[2])

\* SQL's column <= value: a NULL column never satisfies the comparison
SqlLeq(col, value) == col # None /\ DtLeq(col, value)

-----------------------------------------------------------------------------
(* services.round_to_quarter_hour *)

\* A variant whose first band ends one minute late, for the check of the bands
round_to_quarter_hour_lt9(dt) ==
    LET minute == Minute(dt)
        shifted == IF minute < 9 \/ minute < 23 \/ minute < 38 \/ minute < 53
                   THEN dt ELSE AddSeconds(dt, 3600)
        rounded_minute ==
            IF minute < 9 THEN 0
            ELSE IF minute < 23 THEN 15
            ELSE IF minute < 38 THEN 30
            ELSE IF minute < 53 THEN 45
            ELSE 0
    IN  Replace(shifted, rounded_minute, 0, 0)

round_to_quarter_hour(dt) ==
    LET minute == Minute(dt)
        shifted == IF minute < 8 \/ minute < 23 \/ minute < 38 \/ minute < 53
                   THEN dt ELSE AddSeconds(dt, 3600)
        rounded_minute ==
            IF minute < 8 THEN 0
            ELSE IF minute < 23 THEN 15
            ELSE IF minute < 38 THEN 30
            ELSE IF minute < 53 THEN 45
            ELSE 0
    IN  Replace(shifted, rounded_minute, 0, 0)

-----------------------------------------------------------------------------
(* google_directions.DirectionsService: the route estimate *)

\* One extracted step: 'transit' is present exactly when the raw step had
\* transit_details; its departure_time is a Unix timestamp or None.
Step(mode, has_transit, dep) ==
    [travel_mode |-> mode, has_transit |-> has_transit, departure_time |-> dep]

Walk == Step("WALKING", FALSE, None)
Bus(ts) == Step("TRANSIT", TRUE, Some(ts))
BusNoTime == Step("TRANSIT", TRUE, None)

\* What the Directions API can answer: no route / an error, or one leg with a
\* duration and its steps.
ApiFailure == [ok |-> FALSE, duration |-> 0, steps |-> <<>>]
ApiRoute(d, st) == [ok |-> TRUE, duration |-> d, steps |-> st]

\* (a variant that treats every target as a departure time, for the check of
\* the two bases)
calculate_route_departure_only(target_type, target_time, api) ==
    IF ~api.ok
    THEN [success |-> FALSE, departure_time |-> None, arrival_time |-> None,
          duration_seconds |-> None, steps |-> <<>>]
    ELSE [success |-> TRUE,
          departure_time |-> target_time,
          arrival_time |-> AddSeconds(target_time, api.duration),
          duration_seconds |-> Some(api.duration),
          steps |-> api.steps]

calculate_route(target_type, target_time, api) ==
    IF ~api.ok
    THEN [success |-> FALSE, departure_time |-> None, arrival_time |-> None,
          duration_seconds |-> None, steps |-> <<>>]
    ELSE IF target_type = "DEPARTURE"
    THEN [success |-> TRUE,
          departure_time |-> target_time,
          arrival_time |-> AddSeconds(target_time, api.duration),
          duration_seconds |-> Some(api.duration),
          steps |-> api.steps]
    ELSE [success |-> TRUE,
          departure_time |-> AddSeconds(target_time, -api.duration),
          arrival_time |-> target_time,
          duration_seconds |-> Some(api.duration),
          steps |-> api.steps]

-----------------------------------------------------------------------------
(* services.extract_first_transit_time *)

\* datetime.fromtimestamp(ts, tz = utc) of an integer timestamp
FromTimestamp(ts) == DateTime(ts, 0)

\* `if dep_time_ts:` is false for None and for 0
Truthy(opt) == opt # None /\ opt[1] # 0

Qualifies(step) == step.has_transit /\ Truthy(step.departure_time)

\* (a variant that keeps the last qualifying step, for the check that the
\* scan returns at the first one)
extract_last_transit_time(steps) ==
    LET hits == {i \in DOMAIN steps : Qualifies(steps[i])}
    IN  IF hits = {} THEN <<None, None>>
        ELSE LET i == CHOOSE j \in hits : \A h \in hits : j >= h
             IN  <<FromTimestamp(steps[i].departure_time[1]), Some(steps[i])>>

\* <<transit_time, transit_info>> of the first qualifying step, else <<None, None>>
extract_first_transit_time(steps) ==
    LET hits == {i \in DOMAIN steps : Qualifies(steps[i])}
    IN  IF hits = {} THEN <<None, None>>
        ELSE LET i == CHOOSE j \in hits : \A h \in hits : j <= h
             IN  <<FromTimestamp(steps[i].departure_time[1]), Some(steps[i])>>

-----------------------------------------------------------------------------
(* models.TransitAlert and services.calculate_and_update_route *)

Kinds == {"wake_up", "departure", "transit"}
Statuses == {"PENDING", "SENT", "FAILED", "CANCELLED"}

\* The row create_alert inserts: column defaults for flags and status
NewAlert(ttype, ttime, prep) ==
    [origin_text |-> "origin", destination_text |-> "destination",
     target_type |-> ttype, target_time |-> ttime,
     preparation_minutes |-> prep,
     calculated_departure_time |-> None, calculated_arrival_time |-> None,
     total_duration_seconds |-> None,
     wake_up_time |-> None, rounded_departure_time |-> None,
     first_transit_stop_time |-> None, transit_notify_time |-> None,
     wake_up_sent |-> FALSE, departure_sent |-> FALSE, transit_sent |-> FALSE,
     status |-> "PENDING"]

\* `alert.preparation_minutes or 30`
PrepOr30(prep) == IF Truthy(prep) THEN prep[1] ELSE 30

\* The row after calculate_and_update_route, given the estimator's result
\* (the variants, one resetting times when the estimate fails, one writing
\* the flags too, are for the checks of the planner's write set)
PlanRowFailureResets(alert, result) ==
    IF ~result.success
    THEN [alert EXCEPT !.wake_up_time = None, !.rounded_departure_time = None,
                       !.transit_notify_time = None]
    ELSE
    LET rounded == round_to_quarter_hour(result.departure_time)
        prep_minutes == PrepOr30(alert.preparation_minutes)
        ft == extract_first_transit_time(result.steps)
        base == [alert EXCEPT
                   !.calculated_departure_time = result.departure_time,
                   !.calculated_arrival_time = result.arrival_time,
                   !.total_duration_seconds = result.duration_seconds,
                   !.rounded_departure_time = rounded,
                   !.wake_up_time = AddSeconds(rounded, -(prep_minutes * 60))]
    IN  IF ft[1] # None
        THEN [base EXCEPT !.first_transit_stop_time = ft[1],
                          !.transit_notify_time = AddSeconds(ft[1], -(3 * 60))]
        ELSE base

PlanRowRearm(alert, result) ==
    IF ~result.success THEN alert
    ELSE
    LET rounded == round_to_quarter_hour(result.departure_time)
        prep_minutes == PrepOr30(alert.preparation_minutes)
        ft == extract_first_transit_time(result.steps)
        base == [alert EXCEPT
                   !.calculated_departure_time = result.departure_time,
                   !.calculated_arrival_time = result.arrival_time,
                   !.total_duration_seconds = result.duration_seconds,
                   !.rounded_departure_time = rounded,
                   !.wake_up_time = AddSeconds(rounded, -(prep_minutes * 60)),
                   !.wake_up_sent = FALSE, !.departure_sent = FALSE,
                   !.transit_sent = FALSE]
    IN  IF ft[1] # None
        THEN [base EXCEPT !.first_transit_stop_time = ft[1],
                          !.transit_notify_time = AddSeconds(ft[1], -(3 * 60))]
        ELSE base

PlanRow(alert, result) ==
    IF ~result.success THEN alert
    ELSE
    LET rounded == round_to_quarter_hour(result.departure_time)
        prep_minutes == PrepOr30(alert.preparation_minutes)
        ft == extract_first_transit_time(result.steps)
        base == [alert EXCEPT
                   !.calculated_departure_time = result.departure_time,
                   !.calculated_arrival_time = result.arrival_time,
                   !.total_duration_seconds = result.duration_seconds,
                   !.rounded_departure_time = rounded,
                   !.wake_up_time = AddSeconds(rounded, -(prep_minutes * 60))]
    IN  IF ft[1] # None
        THEN [base EXCEPT !.first_transit_stop_time = ft[1],
                          !.transit_notify_time = AddSeconds(ft[1], -(3 * 60))]
        ELSE base

\* The estimate the planner asks for: the alert's own inputs
RouteFor(alert, api) == calculate_route(alert.target_type, alert.target_time, api)

-----------------------------------------------------------------------------
(* Rows: flags and trigger times by notification kind *)

Flag(alert, k) ==
    CASE k = "wake_up" -> alert.wake_up_sent
      [] k = "departure" -> alert.departure_sent
      [] k = "transit" -> alert.transit_sent

TriggerTime(alert, k) ==
    CASE k = "wake_up" -> alert.wake_up_time
      [] k = "departure" -> alert.rounded_departure_time
      [] k = "transit" -> alert.transit_notify_time

SetFlag(alert, k) ==
    CASE k = "wake_up" -> [alert EXCEPT !.wake_up_sent = TRUE]
      [] k = "departure" -> [alert EXCEPT !.departure_sent = TRUE]
      [] k = "transit" -> [alert EXCEPT !.transit_sent = TRUE]

AllSent(alert) == alert.wake_up_sent /\ alert.departure_sent /\ alert.transit_sent

Ids == 1..MaxAlerts
Exists(a) == a \in DOMAIN alerts

-----------------------------------------------------------------------------
(* services.get_pending_alerts *)

\* Variants without the status filter, without the flag filter, and with a
\* strict comparison, for the checks that the selector needs each of them
get_pending_alerts_strict(k, t) ==
    {a \in DOMAIN alerts :
        /\ alerts[a].status = "PENDING"
        /\ Flag(alerts[a], k) = FALSE
        /\ SqlLeq(TriggerTime(alerts[a], k), t)
        /\ TriggerTime(alerts[a], k) # t}

get_pending_alerts_any_status(k, t) ==
    {a \in DOMAIN alerts :
        /\ Flag(alerts[a], k) = FALSE
        /\ SqlLeq(TriggerTime(alerts[a], k), t)}

get_pending_alerts_ignore_flag(k, t) ==
    {a \in DOMAIN alerts :
        /\ alerts[a].status = "PENDING"
        /\ SqlLeq(TriggerTime(alerts[a], k), t)}

get_pending_alerts_any_time(k, t) ==
    {a \in DOMAIN alerts :
        /\ alerts[a].status = "PENDING"
        /\ Flag(alerts[a], k) = FALSE
        /\ TriggerTime(alerts[a], k) # None}

get_pending_alerts(k, t) ==
    {a \in DOMAIN alerts :
        /\ alerts[a].status = "PENDING"
        /\ Flag(alerts[a], k) = FALSE
        /\ SqlLeq(TriggerTime(alerts[a], k), t)}

-----------------------------------------------------------------------------
(* The environment's inputs *)

StartTime == DateTime(HMS(8, 0, 0), 0)
ClockStep == 60 * 60

PrepChoices == {Some(15)}
TargetChoices == {<<"ARRIVAL", DateTime(HMS(9, 0, 0), 0)>>}
ApiAnswers ==
    {ApiFailure,
     ApiRoute(1230, <<Walk, BusNoTime>>),
     ApiRoute(1230, <<Walk, Bus(HMS(8, 50, 0))>>)}

\* The JSON body of PUT /alerts/<id>: each updatable field present or absent
UpdateChoices(preps) ==
    [has_status : BOOLEAN, status : Statuses, has_prep : BOOLEAN, prep : preps]

Jobs == Kinds
Callers == Jobs \cup {"http"}
NoCall == [id |-> 0, kind |-> "none", loaded |-> FALSE]
NoProbe == [tag |-> "none"]
Resp(op, a, k, outcome) == [op |-> op, id |-> a, kind |-> k, outcome |-> outcome]
NoResp == Resp("none", 0, "none", "none")

-----------------------------------------------------------------------------
(* Init *)

InitMain ==
    /\ alerts = <<>>
    /\ nextId = 1
    /\ now = StartTime
    /\ pc = [c \in Callers |-> "idle"]
    /\ todo = [k \in Jobs |-> {}]
    /\ call = [c \in Callers |-> NoCall]
    /\ resp = NoResp
    /\ delivered = [a \in Ids |-> [k \in Kinds |-> 0]]
    /\ nops = 0

Init == InitMain /\ probe = NoProbe

-----------------------------------------------------------------------------
(* The clock *)

Tick ==
    /\ now[1] + ClockStep <= StartTime[1] + MaxTicks * ClockStep
    /\ now' = AddSeconds(now, ClockStep)
    /\ UNCHANGED <<alerts, nextId, pc, todo, call, resp, delivered, nops>>

-----------------------------------------------------------------------------
(* routes.py: the handlers that run as one transaction *)

\* POST /alerts: insert the row, then calculate_and_update_route on it
create_alert(tt, prep, api) ==
    /\ nextId <= MaxAlerts
    /\ LET row == NewAlert(tt[1], tt[2], prep)
           result == RouteFor(row, api)
       IN  /\ alerts' = alerts @@ (nextId :> PlanRow(row, result))
           /\ resp' = Resp("create", nextId, "none",
                          IF result.success THEN "ok" ELSE "route_failed")
    /\ nextId' = nextId + 1
    /\ nops' = nops + 1
    /\ UNCHANGED <<now, pc, todo, call, delivered>>

\* The row after the loop over updatable_fields
UpdatedRow(alert, data) ==
    LET r1 == IF data.has_status THEN [alert EXCEPT !.status = data.status] ELSE alert
    IN  IF data.has_prep THEN [r1 EXCEPT !.preparation_minutes = data.prep] ELSE r1

\* PUT /alerts/<id>; get_or_404 raises inside the try, so an unknown id is a 400
update_alert(a, data) ==
    /\ IF Exists(a)
       THEN /\ alerts' = [alerts EXCEPT ![a] = UpdatedRow(alerts[a], data)]
            /\ resp' = Resp("update", a, "none", "ok")
       ELSE /\ alerts' = alerts
            /\ resp' = Resp("update", a, "none", "error")
    /\ nops' = nops + 1
    /\ UNCHANGED <<nextId, now, pc, todo, call, delivered>>

\* POST /alerts/<id>/recalculate
recalculate_route(a, api) ==
    /\ IF Exists(a)
       THEN LET result == RouteFor(alerts[a], api)
            IN  /\ alerts' = [alerts EXCEPT ![a] = PlanRow(alerts[a], result)]
                /\ resp' = Resp("recalculate", a, "none", IF result.success THEN "ok" ELSE "route_failed")
       ELSE /\ alerts' = alerts
            /\ resp' = Resp("recalculate", a, "none", "not_found")
    /\ nops' = nops + 1
    /\ UNCHANGED <<nextId, now, pc, todo, call, delivered>>

\* services.cancel_alert: the row it writes
CancelledRow(alert) == [alert EXCEPT !.status = "CANCELLED"]

\* POST /alerts/<id>/cancel
cancel_alert(a) ==
    /\ IF Exists(a)
       THEN /\ alerts' = [alerts EXCEPT ![a] = CancelledRow(alerts[a])]
            /\ resp' = Resp("cancel", a, "none", "ok")
       ELSE /\ alerts' = alerts
            /\ resp' = Resp("cancel", a, "none", "not_found")
    /\ nops' = nops + 1
    /\ UNCHANGED <<nextId, now, pc, todo, call, delivered>>

\* DELETE /alerts/<id>; an unknown id is a 400, as in update_alert
delete_alert(a) ==
    /\ IF Exists(a)
       THEN /\ alerts' = [i \in DOMAIN alerts \ {a} |-> alerts[i]]
            /\ resp' = Resp("delete", a, "none", "ok")
       ELSE /\ alerts' = alerts
            /\ resp' = Resp("delete", a, "none", "error")
    /\ nops' = nops + 1
    /\ UNCHANGED <<nextId, now, pc, todo, call, delivered>>

-----------------------------------------------------------------------------
(* services.send_wake_up_notification, send_departure_notification,        *)
(* send_transit_notification                                               *)

\* The guards after TransitAlert.query.get: "go" when the send is attempted
\* (the variants, one without the flag guard, one that answers a missing row
\* like a sent one, one that also asks for status PENDING, are for the
\* checks of what the guards are)
DispatchGuardPendingOnly(a, k) ==
    IF ~Exists(a) THEN "not_found"
    ELSE IF Flag(alerts[a], k) THEN "already_sent"
    ELSE IF alerts[a].status # "PENDING" THEN "not_pending"
    ELSE "go"

DispatchGuardMissingAsSent(a, k) ==
    IF ~Exists(a) THEN "already_sent"
    ELSE IF Flag(alerts[a], k) THEN "already_sent"
    ELSE "go"

DispatchGuardNoRecheck(a, k) ==
    IF ~Exists(a) THEN "not_found" ELSE "go"

DispatchGuard(a, k) ==
    IF ~Exists(a) THEN "not_found"
    ELSE IF Flag(alerts[a], k) THEN "already_sent"
    ELSE "go"

\* Whether the time the message formats was set on the loaded row
\* (None.strftime raises, and the handler's except returns a failure)
LoadedOk(alert, k) ==
    CASE k = "wake_up" -> alert.rounded_departure_time # None
      [] k = "departure" -> alert.calculated_arrival_time # None
      [] k = "transit" -> TRUE

\* result.get('steps', []) of the re-fetched route
ResultSteps(api) == IF api.ok THEN api.steps ELSE <<>>

\* `if not transit_info` of the transit dispatch (the variant that looks only
\* at the estimate's success is for the check of the steps' part)
NoTransitInfoOnFailure(k, api) == k = "transit" /\ ~api.ok

NoTransitInfo(k, api) ==
    k = "transit" /\ extract_first_transit_time(ResultSteps(api))[2] = None

\* Whether the delivery collaborator is invoked (the variant in which the
\* departure message needs the re-fetched route is for the check that it
\* does not)
SendsNeedsRoute(k, loaded, api) ==
    loaded /\ ~NoTransitInfo(k, api) /\ (k = "departure" => api.ok)

Sends(k, loaded, api) == loaded /\ ~NoTransitInfo(k, api)

\* The dispatch's result once its guards have passed; `present` is whether
\* the row still exists when the flag is committed
DispatchResult(k, loaded, present, api, sms_ok) ==
    IF NoTransitInfo(k, api) THEN "no_transit"
    ELSE IF ~loaded THEN "error"
    ELSE IF ~sms_ok THEN "failure"
    ELSE IF ~present THEN "error"
    ELSE "success"

\* The external calls, and on confirmed delivery the flag's commit (the
\* variant that commits the flag whatever the delivery reports is for the
\* check of the failure path)
DispatchEffectFlagAlways(a, k, loaded, api, sms_ok) ==
    /\ delivered' = IF Sends(k, loaded, api) /\ sms_ok
                    THEN [delivered EXCEPT ![a][k] = @ + 1]
                    ELSE delivered
    /\ alerts' = IF Sends(k, loaded, api) /\ Exists(a)
                 THEN [alerts EXCEPT ![a] = SetFlag(alerts[a], k)]
                 ELSE alerts

\* (a variant that commits the flag before the external calls)
DispatchEffectFlagFirst(a, k, loaded, api, sms_ok) ==
    /\ delivered' = IF Sends(k, loaded, api) /\ sms_ok
                    THEN [delivered EXCEPT ![a][k] = @ + 1]
                    ELSE delivered
    /\ alerts' = IF Exists(a)
                 THEN [alerts EXCEPT ![a] = SetFlag(alerts[a], k)]
                 ELSE alerts

\* (a variant whose transit dispatch writes the status itself)
DispatchEffectWritesStatus(a, k, loaded, api, sms_ok) ==
    /\ delivered' = IF Sends(k, loaded, api) /\ sms_ok
                    THEN [delivered EXCEPT ![a][k] = @ + 1]
                    ELSE delivered
    /\ alerts' = IF DispatchResult(k, loaded, Exists(a), api, sms_ok) = "success"
                 THEN [alerts EXCEPT ![a] =
                          IF k = "transit"
                          THEN [SetFlag(alerts[a], k) EXCEPT !.status = "SENT"]
                          ELSE SetFlag(alerts[a], k)]
                 ELSE alerts

DispatchEffect(a, k, loaded, api, sms_ok) ==
    /\ delivered' = IF Sends(k, loaded, api) /\ sms_ok
                    THEN [delivered EXCEPT ![a][k] = @ + 1]
                    ELSE delivered
    /\ alerts' = IF DispatchResult(k, loaded, Exists(a), api, sms_ok) = "success"
                 THEN [alerts EXCEPT ![a] = SetFlag(alerts[a], k)]
                 ELSE alerts

-----------------------------------------------------------------------------
(* routes.notify_wake_up, notify_departure, notify_transit: the request is *)
(* two steps, the load with its guards, then the external calls with the   *)
(* commit, so that other callers run in between                            *)

notify_begin(a, k) ==
    /\ pc["http"] = "idle"
    /\ nops' = nops + 1
    /\ IF DispatchGuard(a, k) = "go"
       THEN /\ pc' = [pc EXCEPT !["http"] = "sending"]
            /\ call' = [call EXCEPT !["http"] =
                          [id |-> a, kind |-> k, loaded |-> LoadedOk(alerts[a], k)]]
            /\ resp' = resp
       ELSE /\ resp' = Resp("notify", a, k, DispatchGuard(a, k))
            /\ UNCHANGED <<pc, call>>
    /\ UNCHANGED <<alerts, nextId, now, todo, delivered>>

notify_finish(api, sms_ok) ==
    /\ pc["http"] = "sending"
    /\ DispatchEffect(call["http"].id, call["http"].kind, call["http"].loaded, api, sms_ok)
    /\ resp' = Resp("notify", call["http"].id, call["http"].kind,
                     DispatchResult(call["http"].kind, call["http"].loaded,
                                    Exists(call["http"].id), api, sms_ok))
    /\ pc' = [pc EXCEPT !["http"] = "idle"]
    /\ call' = [call EXCEPT !["http"] = NoCall]
    /\ UNCHANGED <<nextId, now, todo, nops>>

-----------------------------------------------------------------------------
(* scheduler.py: the three interval jobs *)

\* (the variants, one ending the pass after its first alert, one never
\* ending it, are for the checks that the loop goes on and that passes recur)
AfterAlertStops(left) == "idle"

AfterAlertStays(left) == "loop"

AfterAlert(left) == IF left = {} THEN "idle" ELSE "loop"

\* alerts = get_pending_alerts(kind)
job_select(k) ==
    /\ pc[k] = "idle"
    /\ get_pending_alerts(k, now) # {}
    /\ todo' = [todo EXCEPT ![k] = get_pending_alerts(k, now)]
    /\ pc' = [pc EXCEPT ![k] = "loop"]
    /\ UNCHANGED <<alerts, nextId, now, call, resp, delivered, nops>>

\* Whether the job goes on to mark_alert_complete
RunsCompletion(k, result) == k = "transit" /\ result = "success"

\* for alert in alerts: result = send_<kind>_notification(alert.id), logged
job_dispatch(k, a, api, sms_ok) ==
    /\ pc[k] = "loop"
    /\ a \in todo[k]
    /\ todo' = [todo EXCEPT ![k] = @ \ {a}]
    /\ IF DispatchGuard(a, k) = "go"
       THEN /\ DispatchEffect(a, k, LoadedOk(alerts[a], k), api, sms_ok)
            /\ IF RunsCompletion(k, DispatchResult(k, LoadedOk(alerts[a], k), TRUE, api, sms_ok))
               THEN /\ pc' = [pc EXCEPT ![k] = "complete"]
                    /\ call' = [call EXCEPT ![k] = [id |-> a, kind |-> k, loaded |-> TRUE]]
               ELSE /\ pc' = [pc EXCEPT ![k] = AfterAlert(todo[k] \ {a})]
                    /\ call' = call
       ELSE /\ pc' = [pc EXCEPT ![k] = AfterAlert(todo[k] \ {a})]
            /\ UNCHANGED <<alerts, delivered, call>>
    /\ UNCHANGED <<nextId, now, resp, nops>>

\* services.mark_alert_complete: the row it leaves
CompletedRow(alert) ==
    IF alert.wake_up_sent /\ alert.departure_sent /\ alert.transit_sent
    THEN [alert EXCEPT !.status = "SENT"] ELSE alert

\* mark_alert_complete(alert.id) after a successful transit dispatch
job_complete(k) ==
    /\ pc[k] = "complete"
    /\ alerts' = IF Exists(call[k].id)
                 THEN [alerts EXCEPT ![call[k].id] = CompletedRow(alerts[call[k].id])]
                 ELSE alerts
    /\ pc' = [pc EXCEPT ![k] = AfterAlert(todo[k])]
    /\ call' = [call EXCEPT ![k] = NoCall]
    /\ UNCHANGED <<nextId, now, todo, resp, delivered, nops>>

-----------------------------------------------------------------------------
(* The system: the web server's handlers, the scheduler's jobs, the clock *)

\* A request is admitted while the budget of requests lasts; a sequential
\* client issues one only when its previous request has been answered
Admit(b, sequential) == nops < b /\ (sequential => pc["http"] = "idle")

HttpNext(b, sq) ==
    \/ \E tt \in TargetChoices, prep \in PrepChoices, api \in ApiAnswers :
          Admit(b, sq) /\ create_alert(tt, prep, api) /\ UNCHANGED probe
    \/ \E a \in Ids, data \in UpdateChoices(PrepChoices) :
          Admit(b, sq) /\ update_alert(a, data) /\ UNCHANGED probe
    \/ \E a \in Ids, api \in ApiAnswers :
          Admit(b, sq) /\ recalculate_route(a, api) /\ UNCHANGED probe
    \/ \E a \in Ids : Admit(b, sq) /\ cancel_alert(a) /\ UNCHANGED probe
    \/ \E a \in Ids : Admit(b, sq) /\ delete_alert(a) /\ UNCHANGED probe
    \/ \E a \in Ids, k \in Kinds : Admit(b, sq) /\ notify_begin(a, k) /\ UNCHANGED probe
    \/ \E api \in ApiAnswers, sms_ok \in BOOLEAN :
          notify_finish(api, sms_ok) /\ UNCHANGED probe

JobNext ==
    \/ \E k \in Jobs : job_select(k) /\ UNCHANGED probe
    \/ \E k \in Jobs, a \in Ids, api \in ApiAnswers, sms_ok \in BOOLEAN :
          job_dispatch(k, a, api, sms_ok) /\ UNCHANGED probe
    \/ \E k \in Jobs : job_complete(k) /\ UNCHANGED probe

\* Server and scheduler together, requests arriving while others are served
Next == HttpNext(MaxOps, FALSE) \/ JobNext \/ (Tick /\ UNCHANGED probe)

Spec == Init /\ [][Next]_vars

\* The server alone, the scheduler not running, with one sequential client
NextSeq == HttpNext(MaxOps + 1, TRUE) \/ (Tick /\ UNCHANGED probe)

SpecSeq == Init /\ [][NextSeq]_vars

-----------------------------------------------------------------------------
(* The planner on its own: creations, recomputations and updates over a    *)
(* wider range of inputs; probe keeps the alert and the estimator's answer *)
(* of the plan that ran last                                               *)

PlanPreps == {None, Some(0), Some(15), Some(30), Some(45)}
PlanTargets ==
    {<<"ARRIVAL", DateTime(HMS(9, 0, 0), 0)>>,
     <<"DEPARTURE", DateTime(HMS(8, 53, 10), 250000)>>}
PlanAnswers ==
    {ApiFailure,
     ApiRoute(1230, <<Walk>>),
     ApiRoute(1230, <<Walk, Bus(HMS(8, 50, 0))>>),
     ApiRoute(600, <<Walk, BusNoTime, Bus(HMS(8, 55, 0)), Bus(HMS(9, 10, 0))>>)}

Planned(a, api) == [tag |-> "plan", id |-> a, api |-> api]

NextPlan ==
    \/ \E tt \in PlanTargets, prep \in PlanPreps, api \in PlanAnswers :
          Admit(MaxOps, TRUE) /\ create_alert(tt, prep, api) /\ probe' = Planned(nextId, api)
    \/ \E a \in Ids, api \in PlanAnswers :
          Admit(MaxOps, TRUE) /\ recalculate_route(a, api)
              /\ probe' = IF Exists(a) THEN Planned(a, api) ELSE NoProbe
    \/ \E a \in Ids, data \in UpdateChoices(PlanPreps) :
          Admit(MaxOps, TRUE) /\ update_alert(a, data) /\ probe' = NoProbe

SpecPlan == Init /\ [][NextPlan]_vars

-----------------------------------------------------------------------------
(* round_to_quarter_hour on its own: every minute of the hour, at hours    *)
(* with and without a carry into the next day, with and without seconds    *)
(* and microseconds                                                        *)

RoundInputs ==
    {DateTime(d * 86400 + HMS(h, m, sec), us) :
        d \in 0..MaxDay, h \in {0, 8, 23}, m \in 0..59,
        sec \in {0, 30, 59}, us \in {0, 999999}}

InitRound ==
    /\ InitMain
    /\ probe \in {[tag |-> "round", in |-> dt, out |-> None] : dt \in RoundInputs}

round_step ==
    /\ probe.tag = "round"
    /\ probe.out = None
    /\ probe' = [probe EXCEPT !.out = round_to_quarter_hour(probe.in)]
    /\ UNCHANGED mainVars

SpecRound == InitRound /\ [][round_step]_vars

-----------------------------------------------------------------------------
(* The scan for the first transit leg alone, over routes of a few legs, and *)
(* what a first plan stores from it                                         *)

MaxLegs == 3

LegChoices == {Walk, BusNoTime, Bus(HMS(8, 50, 0)), Bus(HMS(9, 10, 0))}
ExtractInputs == UNION {[1..n -> LegChoices] : n \in 0..MaxLegs}

InitExtract ==
    /\ InitMain
    /\ probe \in {[tag |-> "extract", steps |-> st, done |-> FALSE,
                   out |-> <<None, None>>, stored |-> None] : st \in ExtractInputs}

extract_step ==
    /\ probe.tag = "extract"
    /\ ~probe.done
    /\ probe' = [probe EXCEPT
                   !.done = TRUE,
                   !.out = extract_first_transit_time(probe.steps),
                   !.stored = PlanRow(NewAlert("ARRIVAL", DateTime(HMS(9, 0, 0), 0), None),
                                      calculate_route("ARRIVAL", DateTime(HMS(9, 0, 0), 0),
                                                      ApiRoute(1230, probe.steps))
                                     ).first_transit_stop_time]
    /\ UNCHANGED mainVars

SpecExtract == InitExtract /\ [][extract_step]_vars

-----------------------------------------------------------------------------
(* The scheduler with its log: over a table that creations have left, the  *)
(* three jobs poll while the clock advances.  probe keeps, per job, what    *)
(* the log of its current pass shows: no failure so far ("clean"), a        *)
(* failure as its last line with none before it ("failed"), or a dispatch   *)
(* logged after a failure ("continued").                                    *)

NoLog == [tag |-> "poll", mark |-> [k \in Jobs |-> "clean"]]

\* The result the job logs for its dispatch of alert a
Logged(k, a, api, sms_ok) ==
    IF DispatchGuard(a, k) # "go" THEN DispatchGuard(a, k)
    ELSE DispatchResult(k, LoadedOk(alerts[a], k), TRUE, api, sms_ok)

\* The pass's log after one more line
Marked(mark, result) ==
    IF mark # "clean" THEN "continued"
    ELSE IF result = "success" THEN "clean" ELSE "failed"

\* The tables that creations leave: up to n rows, each planned from some answer
PlannedRows ==
    {PlanRow(NewAlert(tt[1], tt[2], prep), RouteFor(NewAlert(tt[1], tt[2], prep), api)) :
        tt \in TargetChoices, prep \in PrepChoices, api \in ApiAnswers}

TablesUpTo(n) == UNION {[1..m -> PlannedRows] : m \in 1..n}

InitOver(tables, ghost) ==
    /\ alerts \in tables
    /\ nextId = Len(alerts) + 1
    /\ now = StartTime
    /\ pc = [c \in Callers |-> "idle"]
    /\ todo = [k \in Jobs |-> {}]
    /\ call = [c \in Callers |-> NoCall]
    /\ resp = NoResp
    /\ delivered = [a \in Ids |-> [k \in Kinds |-> 0]]
    /\ nops = Len(alerts)
    /\ probe = ghost

InitPoll == InitOver(TablesUpTo(MaxAlerts), NoLog)

PollSelect(k) ==
    /\ job_select(k)
    /\ probe' = [probe EXCEPT !.mark[k] = "clean"]

PollDispatch(k) ==
    \E a \in Ids, api \in ApiAnswers, sms_ok \in BOOLEAN :
        /\ job_dispatch(k, a, api, sms_ok)
        /\ probe' = [probe EXCEPT !.mark[k] = Marked(@, Logged(k, a, api, sms_ok))]

PollComplete(k) == job_complete(k) /\ UNCHANGED probe

NextPoll ==
    \/ \E k \in Jobs : PollSelect(k)
    \/ \E k \in Jobs : PollDispatch(k)
    \/ \E k \in Jobs : PollComplete(k)
    \/ (Tick /\ UNCHANGED probe)

SpecPoll == InitPoll /\ [][NextPoll]_vars

-----------------------------------------------------------------------------
(* The scheduler over a small table, with its interval triggers: each job   *)
(* is run again and again, and a pass under way goes on.  probe keeps, per  *)
(* job, whether the last line of its log is a failure.                      *)

MaxRetryAlerts == 1

NoFailure == [tag |-> "retry", failed |-> [k \in Jobs |-> FALSE]]

InitRetry == InitOver(TablesUpTo(MaxRetryAlerts), NoFailure)

RetrySelect(k) == job_select(k) /\ UNCHANGED probe

RetryDispatch(k) ==
    \E a \in Ids, api \in ApiAnswers, sms_ok \in BOOLEAN :
        /\ job_dispatch(k, a, api, sms_ok)
        /\ probe' = [probe EXCEPT !.failed[k] = (Logged(k, a, api, sms_ok) # "success")]

RetryComplete(k) == job_complete(k) /\ UNCHANGED probe

NextRetry ==
    \/ \E k \in Jobs : RetrySelect(k)
    \/ \E k \in Jobs : RetryDispatch(k)
    \/ \E k \in Jobs : RetryComplete(k)
    \/ (Tick /\ UNCHANGED probe)

SpecRetry ==
    /\ InitRetry
    /\ [][NextRetry]_vars
    /\ \A k \in Jobs :
          WF_vars(RetrySelect(k)) /\ WF_vars(RetryDispatch(k)) /\ WF_vars(RetryComplete(k))

-----------------------------------------------------------------------------
(* The notify requests alone over planned tables, with a record of the    *)
(* last attempt: for which alert and kind, and what the estimator and the  *)
(* delivery answered                                                       *)

NoAttempt == [tag |-> "send"]
Attempt(a, k, api, sms_ok) ==
    [tag |-> "sent", id |-> a, kind |-> k, route_ok |-> api.ok, sms_ok |-> sms_ok]

InitSend == InitOver(TablesUpTo(MaxAlerts), NoAttempt)

SendBegin(a, k) ==
    /\ Admit(MaxOps + 1, FALSE)
    /\ notify_begin(a, k)
    /\ UNCHANGED probe

SendFinish(api, sms_ok) ==
    /\ notify_finish(api, sms_ok)
    /\ probe' = Attempt(call["http"].id, call["http"].kind, api, sms_ok)

NextSend ==
    \/ \E a \in Ids, k \in Kinds : SendBegin(a, k)
    \/ \E api \in ApiAnswers, sms_ok \in BOOLEAN : SendFinish(api, sms_ok)
    \/ (Tick /\ UNCHANGED probe)

SpecSend == InitSend /\ [][NextSend]_vars

-----------------------------------------------------------------------------
(* The jobs over planned tables while alerts are recalculated and          *)
(* cancelled, with a record per job of the trigger time each alert of its  *)
(* last selection had when it was selected                                 *)

NoPick == [tag |-> "pick", at |-> [k \in Jobs |-> [a \in Ids |-> None]]]

Picked(k) ==
    [a \in Ids |-> IF a \in get_pending_alerts(k, now)
                   THEN TriggerTime(alerts[a], k) ELSE None]

InitPick == InitOver(TablesUpTo(MaxRetryAlerts), NoPick)

PickSelect(k) ==
    /\ job_select(k)
    /\ probe' = [probe EXCEPT !.at[k] = Picked(k)]

PickDispatch(k, a, api, sms_ok) == job_dispatch(k, a, api, sms_ok) /\ UNCHANGED probe

PickComplete(k) == job_complete(k) /\ UNCHANGED probe

NextPick ==
    \/ \E k \in Jobs : PickSelect(k)
    \/ \E k \in Jobs, a \in Ids, api \in ApiAnswers, sms_ok \in BOOLEAN :
          PickDispatch(k, a, api, sms_ok)
    \/ \E k \in Jobs : PickComplete(k)
    \/ \E a \in Ids, api \in ApiAnswers :
          Admit(MaxOps, FALSE) /\ recalculate_route(a, api) /\ UNCHANGED probe
    \/ \E a \in Ids : Admit(MaxOps, FALSE) /\ cancel_alert(a) /\ UNCHANGED probe
    \/ (Tick /\ UNCHANGED probe)

SpecPick == InitPick /\ [][NextPick]_vars

-----------------------------------------------------------------------------
(* Properties *)

\* The instants at which the selector is asked what is due
DueTimes == {DateTime(HMS(h, m, 0), 0) : h \in 7..10, m \in {0, 20, 40}}

\* The instants the clock takes
ClockTimes == {AddSeconds(StartTime, i * ClockStep) : i \in 0..MaxTicks}

\* No caller is inside a handler
Quiescent == \A c \in Callers : pc[c] = "idle"

\* C1 (Spec): for every alert and kind the delivery collaborator accepts at
\* most one message, whatever the interleaving of poll passes and direct
\* notify requests.
C1_AtMostOneDelivery ==
    \A a \in Ids, k \in Kinds : delivered[a][k] <= 1

\* C2 (SpecSeq): of two dispatches of the same alert and kind requested one
\* right after the other, the first, its delivery succeeding, answers
\* success and sets the flag, and the second is answered "already sent" and
\* changes neither the row nor the count of deliveries; so a message is
\* delivered at most once and a flag is set exactly when its message has
\* been delivered once.
C2_SecondCallAlreadySent ==
    \A a \in Ids, k \in Kinds :
        (/\ resp = Resp("notify", a, k, "success")
         /\ notify_begin(a, k))
        => /\ resp' = Resp("notify", a, k, "already_sent")
           /\ UNCHANGED <<alerts, delivered, pc, call>>

\* A dispatch that got its message delivered answers success and turns the
\* flag from false to true
C2_FirstCallSucceeds ==
    \A a \in Ids, k \in Kinds :
        (/\ pc["http"] = "sending" /\ call["http"].id = a /\ call["http"].kind = k
         /\ delivered'[a][k] = delivered[a][k] + 1)
        => /\ resp' = Resp("notify", a, k, "success")
           /\ ~Flag(alerts[a], k)
           /\ Flag(alerts'[a], k)

C2_DeliveredOnceFlagOnce ==
    \A a \in Ids, k \in Kinds :
        /\ delivered[a][k] <= 1
        /\ Exists(a) => (Flag(alerts[a], k) <=> delivered[a][k] = 1)

C2_Idempotence ==
    /\ [] C2_DeliveredOnceFlagOnce
    /\ [][C2_FirstCallSucceeds /\ C2_SecondCallAlreadySent]_vars

\* The second of two dispatches in sequence has been answered "already sent",
\* with one delivery made and the flag set
C2_Witness ==
    \E a \in DOMAIN alerts, k \in Kinds :
        /\ resp = Resp("notify", a, k, "already_sent")
        /\ delivered[a][k] = 1
        /\ Flag(alerts[a], k)
        /\ Quiescent

\* C3 (Spec): an alert whose flag of a kind is true is not among the alerts
\* due for that kind, at any instant of the clock, after whatever step comes
\* next.
C3_FlaggedNeverDueAgain ==
    \A a \in DOMAIN alerts, k \in Kinds :
        Flag(alerts[a], k)
        => \A t \in ClockTimes : a \notin get_pending_alerts(k, t)'

C3_SelectorExclusion == [][C3_FlaggedNeverDueAgain]_vars

\* A PENDING alert with a flag set whose trigger time has passed: only the
\* flag keeps it out of the selection
C3_Witness ==
    \E a \in DOMAIN alerts, k \in Kinds :
        /\ Flag(alerts[a], k)
        /\ alerts[a].status = "PENDING"
        /\ SqlLeq(TriggerTime(alerts[a], k), now)
        /\ delivered[a][k] = 1

\* C4 (Spec): an alert has status SENT only if its three flags are true.
C4_SentOnlyIfAllFlags ==
    \A a \in DOMAIN alerts : alerts[a].status = "SENT" => AllSent(alerts[a])

\* C5 (Spec): once nothing is in progress, an alert whose three flags are
\* true is no longer PENDING.
C5_AllFlagsBecomeSent ==
    Quiescent =>
        \A a \in DOMAIN alerts : AllSent(alerts[a]) => alerts[a].status # "PENDING"

\* C6 (Spec): a CANCELLED alert is due for no kind at no instant, and a pass
\* that selects its alerts selects no CANCELLED alert.
C6_CancelledNotDue ==
    \A a \in DOMAIN alerts :
        alerts[a].status = "CANCELLED"
        => \A k \in Kinds, t \in DueTimes \cup {now} : a \notin get_pending_alerts(k, t)

C6_PassSkipsCancelled ==
    \A k \in Jobs :
        (pc[k] = "idle" /\ pc'[k] = "loop")
        => \A a \in todo'[k] : alerts[a].status # "CANCELLED"

C6_Cancellation == [] C6_CancelledNotDue /\ [][C6_PassSkipsCancelled]_vars

\* A CANCELLED alert with a trigger time in the past and its flag unset,
\* while the job of that kind is free to start a pass
C6_Witness ==
    \E a \in DOMAIN alerts, k \in Kinds :
        /\ alerts[a].status = "CANCELLED"
        /\ ~Flag(alerts[a], k)
        /\ SqlLeq(TriggerTime(alerts[a], k), now)
        /\ pc[k] = "idle"

\* C7 (SpecRound): round_to_quarter_hour maps minutes 0-7 to :00, 8-22 to
\* :15, 23-37 to :30, 38-52 to :45 and 53-59 to :00 of the next hour, the
\* hour after 23 being hour 0 of the next day, and the result always has
\* second 0 and microsecond 0.
RoundingTable ==
    (0 :> 0) @@ (7 :> 0) @@ (8 :> 15) @@ (22 :> 15) @@ (23 :> 30) @@
    (37 :> 30) @@ (38 :> 45) @@ (52 :> 45) @@ (53 :> 0) @@ (59 :> 0)

C7_QuarterHourBands ==
    (probe.tag = "round" /\ probe.out # None) =>
        LET m == Minute(probe.in)
            h == Hour(probe.in)
            d == Day(probe.in)
            out == probe.out
            carry == m >= 53
        IN  /\ Second(out) = 0
            /\ Microsecond(out) = 0
            /\ Minute(out) = (IF m <= 7 THEN 0 ELSE IF m <= 22 THEN 15
                              ELSE IF m <= 37 THEN 30 ELSE IF m <= 52 THEN 45 ELSE 0)
            /\ (m \in DOMAIN RoundingTable => Minute(out) = RoundingTable[m])
            /\ Hour(out) = (IF carry THEN (h + 1) % 24 ELSE h)
            /\ Day(out) = (IF carry /\ h = 23 THEN d + 1 ELSE d)

\* A rounding at 23:53 with seconds and microseconds set, carried into the next day
C7_Witness ==
    /\ probe.tag = "round"
    /\ probe.out # None
    /\ Hour(probe.in) = 23 /\ Minute(probe.in) = 53
    /\ Second(probe.in) = 59 /\ Microsecond(probe.in) = 999999
    /\ Day(probe.out) = Day(probe.in) + 1

\* The legs of a route that are transit legs with a departure timestamp
TransitLegs(steps) ==
    {i \in DOMAIN steps : steps[i].has_transit /\ steps[i].departure_time # None}

\* C8 (SpecPlan): after a successful plan the wake-up time is the rounded
\* departure time minus the preparation minutes, 0 included, and minus 30
\* minutes only when the preparation minutes are unset.
C8_WakeUpFromPreparation ==
    (probe.tag = "plan" /\ probe.api.ok) =>
        LET row == alerts[probe.id]
            minutes == IF row.preparation_minutes = None THEN 30
                       ELSE row.preparation_minutes[1]
        IN  row.wake_up_time = AddSeconds(row.rounded_departure_time, -(minutes * 60))

\* C9 (SpecPlan): after a successful plan, first or not, the first transit
\* stop time is the departure timestamp of the route's transit leg and the
\* transit notify time is 3 minutes before it; both are null when the route
\* has no such leg.
C9_TransitTimesFollowRoute ==
    (probe.tag = "plan" /\ probe.api.ok) =>
        LET row == alerts[probe.id]
            steps == probe.api.steps
            legs == TransitLegs(steps)
        IN  IF legs # {}
            THEN LET i == CHOOSE j \in legs : \A h \in legs : j <= h
                 IN  /\ row.first_transit_stop_time = DateTime(steps[i].departure_time[1], 0)
                     /\ row.transit_notify_time =
                            AddSeconds(row.first_transit_stop_time, -180)
            ELSE /\ row.first_transit_stop_time = None
                 /\ row.transit_notify_time = None

\* C10 (SpecPlan): an alert whose last successful plan came from a route
\* without a transit leg is due for 'transit' at no instant, while as a
\* PENDING alert it is due for 'wake_up' and 'departure' at every instant from
\* the trigger time on, as long as the flag is false.
C10_NoTransitLegNeverTransitDue ==
    (probe.tag = "plan" /\ probe.api.ok /\ TransitLegs(probe.api.steps) = {}) =>
        LET row == alerts[probe.id]
        IN  \A t \in DueTimes :
              /\ probe.id \notin get_pending_alerts("transit", t)
              /\ \A k \in {"wake_up", "departure"} :
                    (/\ row.status = "PENDING"
                     /\ ~Flag(row, k)
                     /\ DtLeq(TriggerTime(row, k), t))
                    => probe.id \in get_pending_alerts(k, t)

\* C11 (Spec): no step turns a true flag of a row that stays in the table
\* back to false, and a recomputation leaves the three flags of every row as
\* they were.
C11_FlagsKept ==
    /\ \A a \in DOMAIN alerts \cap DOMAIN alerts', k \in Kinds :
          Flag(alerts[a], k) => Flag(alerts'[a], k)
    /\ \A a \in Ids, api \in ApiAnswers :
          (resp'.op = "recalculate" /\ nops' # nops /\ recalculate_route(a, api))
          => \A b \in DOMAIN alerts, k \in Kinds :
                Flag(alerts'[b], k) = Flag(alerts[b], k)

C11_FlagsMonotonic == [][C11_FlagsKept]_vars

\* A recomputation has just succeeded on an alert one of whose flags was set
C11_Witness ==
    \E a \in DOMAIN alerts, k \in Kinds :
        /\ resp = Resp("recalculate", a, "none", "ok")
        /\ Flag(alerts[a], k)
        /\ delivered[a][k] = 1
        /\ alerts[a].wake_up_time # None

\* C12 (Spec): no step changes the status of a row whose status is SENT.
C12_SentKept ==
    \A a \in DOMAIN alerts \cap DOMAIN alerts' :
        alerts[a].status = "SENT" => alerts'[a].status = "SENT"

C12_SentTerminal == [][C12_SentKept]_vars

\* C13 (Spec): no step changes the status of a row whose status is
\* CANCELLED, the completion check of a transit dispatch already under way
\* and the update request included.
C13_CancelledKept ==
    \A a \in DOMAIN alerts \cap DOMAIN alerts' :
        alerts[a].status = "CANCELLED" => alerts'[a].status = "CANCELLED"

C13_CancelledTerminal == [][C13_CancelledKept]_vars

\* C14 (Spec): a dispatch whose delivery fails answers a failure, changes no
\* row and delivers nothing, whether a job or a notify request made it; so an
\* alert that was due for the kind is still due for it after the step.
C14_FailureChangesNothing ==
    /\ \A k \in Jobs : \A a \in todo[k] \ todo'[k], api \in ApiAnswers :
          job_dispatch(k, a, api, FALSE)
          => /\ alerts' = alerts
             /\ delivered' = delivered
             /\ a \in get_pending_alerts(k, now) => a \in get_pending_alerts(k, now)'
    /\ \A api \in ApiAnswers :
          (pc'["http"] # pc["http"] /\ notify_finish(api, FALSE))
          => /\ alerts' = alerts
             /\ delivered' = delivered
             /\ resp'.outcome \in {"failure", "error", "no_transit"}
             /\ Sends(call["http"].kind, call["http"].loaded, api)
                   => resp'.outcome = "failure"

C14_DeliveryFailure == [][C14_FailureChangesNothing]_vars

\* A notify request has just been answered with the delivery's failure, and
\* the alert is still due for the kind, nothing delivered
C14_Witness ==
    \E a \in DOMAIN alerts, k \in Kinds :
        /\ resp = Resp("notify", a, k, "failure")
        /\ a \in get_pending_alerts(k, now)
        /\ delivered[a][k] = 0
        /\ alerts[a].status = "PENDING"

\* The estimate failed or its route has no leg with transit detail and a
\* departure timestamp
Unresolvable(api) == ~api.ok \/ TransitLegs(api.steps) = {}

\* C15 (Spec): a transit dispatch whose re-fetched route resolves no transit
\* detail delivers nothing and changes no row; a notify request is answered
\* "no transit information", and a job does not go on to the completion
\* check.
C15_NoTransitChangesNothing ==
    /\ \A a \in todo["transit"] \ todo'["transit"], api \in ApiAnswers, sms_ok \in BOOLEAN :
          (Unresolvable(api) /\ job_dispatch("transit", a, api, sms_ok))
          => /\ alerts' = alerts
             /\ delivered' = delivered
             /\ pc'["transit"] # "complete"
    /\ \A api \in ApiAnswers, sms_ok \in BOOLEAN :
          (/\ Unresolvable(api)
           /\ call["http"].kind = "transit"
           /\ pc'["http"] # pc["http"]
           /\ notify_finish(api, sms_ok))
          => /\ alerts' = alerts
             /\ delivered' = delivered
             /\ resp' = Resp("notify", call["http"].id, "transit", "no_transit")

C15_NoTransitInformation == [][C15_NoTransitChangesNothing]_vars

\* A transit notify request has just been answered "no transit information"
\* for an alert planned with a transit leg, its flag false, nothing delivered
C15_Witness ==
    \E a \in DOMAIN alerts :
        /\ resp = Resp("notify", a, "transit", "no_transit")
        /\ alerts[a].transit_notify_time # None
        /\ ~alerts[a].transit_sent
        /\ delivered[a]["transit"] = 0

\* C16 (Spec): a plan whose route estimate fails changes no row of the
\* table, and a creation whose estimate fails leaves the row as inserted; the
\* request is answered with the estimate's failure.
C16_FailedPlanChangesNothing ==
    /\ \A a \in DOMAIN alerts, api \in ApiAnswers :
          (~api.ok /\ resp'.op = "recalculate" /\ nops' # nops /\ recalculate_route(a, api))
          => /\ alerts' = alerts
             /\ resp' = Resp("recalculate", a, "none", "route_failed")
    /\ \A tt \in TargetChoices, prep \in PrepChoices, api \in ApiAnswers :
          (~api.ok /\ nextId' # nextId /\ create_alert(tt, prep, api))
          => /\ alerts' = alerts @@ (nextId :> NewAlert(tt[1], tt[2], prep))
             /\ resp' = Resp("create", nextId, "none", "route_failed")

C16_PlannerFailure == [][C16_FailedPlanChangesNothing]_vars

\* A recomputation has just been answered with the estimate's failure on an
\* alert that had been planned and had a message delivered
C16_Witness ==
    \E a \in DOMAIN alerts, k \in Kinds :
        /\ resp = Resp("recalculate", a, "none", "route_failed")
        /\ alerts[a].wake_up_time # None
        /\ alerts[a].transit_notify_time # None
        /\ Flag(alerts[a], k)

\* C17 (SpecPoll): a pass is over only when none of its alerts is left, and
\* after a failure it is still in its loop while alerts are left; the
\* dispatch that delivers nothing and logs a failure takes its alert off the
\* pass's list, goes on to the next alert if one is left, and touches
\* neither the other jobs' passes nor the clock.
C17_PassRunsToItsEnd ==
    probe.tag = "poll" =>
        \A k \in Jobs :
            /\ pc[k] = "idle" => todo[k] = {}
            /\ (probe.mark[k] = "failed" /\ todo[k] # {}) => pc[k] = "loop"

C17_FailureLeavesOthers ==
    \A k \in Jobs :
        (/\ pc[k] = "loop"
         /\ todo'[k] # todo[k]
         /\ probe'.mark[k] \in {"failed", "continued"}
         /\ delivered' = delivered)
        => /\ \E a \in todo[k] : todo'[k] = todo[k] \ {a}
           /\ pc'[k] = (IF todo'[k] = {} THEN "idle" ELSE "loop")
           /\ \A j \in Jobs \ {k} : pc'[j] = pc[j] /\ todo'[j] = todo[j]
           /\ now' = now

C17_PollPassIsolation ==
    [] C17_PassRunsToItsEnd /\ [][C17_FailureLeavesOthers]_vars

\* A pass has ended whose log shows a dispatch after a failure, and after it
\* the pass of another kind is under way
C17_Witness ==
    /\ probe.tag = "poll"
    /\ \E k \in Jobs :
          /\ probe.mark[k] = "continued"
          /\ pc[k] = "idle"
          /\ \E j \in Jobs \ {k} : pc[j] = "loop" /\ probe.mark[j] = "failed"

\* C18 (SpecRetry): with the jobs run again and again, an alert that is due
\* for a kind and not in the job's pass under way is selected by a later
\* pass, and so after every failed attempt again; and a dispatch by the job
\* whose delivery succeeds sets the flag.
C18_SuccessSetsFlag ==
    \A k \in Jobs, a \in Ids, api \in ApiAnswers :
        (job_dispatch(k, a, api, TRUE) /\ Logged(k, a, api, TRUE) = "success")
        => Flag(alerts'[a], k) /\ delivered'[a][k] = delivered[a][k] + 1

C18_RetryLiveness ==
    /\ \A a \in Ids, k \in Kinds :
          (a \in get_pending_alerts(k, now) /\ a \notin todo[k]) ~> (a \in todo[k])
    /\ [][C18_SuccessSetsFlag]_vars

\* An alert is in a pass again after the job's last dispatch, which was of
\* this alert, failed: still due, with nothing delivered
C18_Witness ==
    /\ probe.tag = "retry"
    /\ \E a \in Ids, k \in Jobs :
          /\ DOMAIN alerts = {a}
          /\ probe.failed[k]
          /\ a \in todo[k]
          /\ a \in get_pending_alerts(k, now)
          /\ delivered[a][k] = 0

\* C19 (Spec): asked at any instant, the clock's or a stored trigger time,
\* the selector for a kind returns exactly the stored alerts with status
\* PENDING, the kind's flag false and the kind's trigger time set and not
\* after the instant; and a job's pass starts with exactly that set at the
\* clock's time.
C19_DueIsExact ==
    \A t \in ClockTimes \cup ({TriggerTime(alerts[a], k) :
                                  a \in DOMAIN alerts, k \in Kinds} \ {None}) :
        /\ get_pending_alerts("wake_up", t)
              = {a \in DOMAIN alerts :
                    /\ alerts[a].status = "PENDING"
                    /\ ~alerts[a].wake_up_sent
                    /\ alerts[a].wake_up_time # None
                    /\ DtLeq(alerts[a].wake_up_time, t)}
        /\ get_pending_alerts("departure", t)
              = {a \in DOMAIN alerts :
                    /\ alerts[a].status = "PENDING"
                    /\ ~alerts[a].departure_sent
                    /\ alerts[a].rounded_departure_time # None
                    /\ DtLeq(alerts[a].rounded_departure_time, t)}
        /\ get_pending_alerts("transit", t)
              = {a \in DOMAIN alerts :
                    /\ alerts[a].status = "PENDING"
                    /\ ~alerts[a].transit_sent
                    /\ alerts[a].transit_notify_time # None
                    /\ DtLeq(alerts[a].transit_notify_time, t)}

C19_ScanTakesAllDue ==
    \A k \in Jobs :
        (pc[k] = "idle" /\ pc'[k] = "loop")
        => todo'[k] = {a \in DOMAIN alerts :
                          /\ alerts[a].status = "PENDING"
                          /\ ~Flag(alerts[a], k)
                          /\ TriggerTime(alerts[a], k) # None
                          /\ DtLeq(TriggerTime(alerts[a], k), now)}

C19_DueSelection == [] C19_DueIsExact /\ [][C19_ScanTakesAllDue]_vars

\* The transit job's pass holds exactly one alert, due for transit, while
\* another pending alert, without a transit trigger time and due for its
\* wake-up, is not in the pass
C19_Witness ==
    \E a \in DOMAIN alerts, b \in DOMAIN alerts :
        /\ pc["transit"] = "loop"
        /\ todo["transit"] = {a}
        /\ a \in get_pending_alerts("transit", now)
        /\ alerts[b].status = "PENDING"
        /\ ~alerts[b].transit_sent
        /\ alerts[b].transit_notify_time = None
        /\ alerts[b].wake_up_time # None
        /\ b \in get_pending_alerts("wake_up", now)

\* C20 (SpecPlan): after a successful plan the stored departure time is the
\* target time and the arrival time is it plus the duration when the target
\* is a DEPARTURE, the stored arrival time is the target time and the
\* departure time is it minus the duration when the target is an ARRIVAL, so
\* that arrival minus departure is the duration; an ARRIVAL at 09:00 with
\* 1230 seconds gives departure 08:39:30, rounded 08:45:00, and wake-up
\* 08:15:00 with 30 preparation minutes.
C20_RouteEstimateTiming ==
    (probe.tag = "plan" /\ probe.api.ok) =>
        LET row == alerts[probe.id]
            d == probe.api.duration
            dep == row.calculated_departure_time
            arr == row.calculated_arrival_time
        IN  /\ row.target_type = "DEPARTURE"
                  => /\ dep = row.target_time
                     /\ arr = <<row.target_time[1] + d, row.target_time[2]>>
            /\ row.target_type = "ARRIVAL"
                  => /\ arr = row.target_time
                     /\ dep = <<row.target_time[1] - d, row.target_time[2]>>
            /\ arr[1] - dep[1] = d
            /\ arr[2] = dep[2]
            /\ row.total_duration_seconds = Some(d)
            /\ (/\ row.target_type = "ARRIVAL"
                /\ row.target_time = DateTime(HMS(9, 0, 0), 0)
                /\ d = 1230)
                  => /\ dep = DateTime(HMS(8, 39, 30), 0)
                     /\ row.rounded_departure_time = DateTime(HMS(8, 45, 0), 0)
                     /\ row.preparation_minutes = Some(30)
                           => row.wake_up_time = DateTime(HMS(8, 15, 0), 0)

\* An alert with 30 preparation minutes has just been planned for an arrival
\* at 09:00 over a route of 1230 seconds
C20_Witness ==
    /\ probe.tag = "plan"
    /\ probe.api.ok
    /\ probe.api.duration = 1230
    /\ alerts[probe.id].target_type = "ARRIVAL"
    /\ alerts[probe.id].target_time = DateTime(HMS(9, 0, 0), 0)
    /\ alerts[probe.id].preparation_minutes = Some(30)
    /\ alerts[probe.id].wake_up_time = DateTime(HMS(8, 15, 0), 0)

\* C21 (SpecPlan): in every state the derived fields of a row that are set
\* agree with each other: the rounded departure time is the quarter-hour
\* rounding of the computed departure time, the wake-up time is the rounded
\* departure time minus the row's current preparation minutes (30 when
\* unset), and the transit notify time is the first transit stop time minus
\* three minutes.
C21_DerivedFieldsConsistent ==
    \A a \in DOMAIN alerts :
        LET row == alerts[a]
            minutes == IF row.preparation_minutes = None THEN 30
                       ELSE row.preparation_minutes[1]
        IN  /\ row.rounded_departure_time # None
                  => /\ row.calculated_departure_time # None
                     /\ row.rounded_departure_time
                           = round_to_quarter_hour(row.calculated_departure_time)
            /\ row.wake_up_time # None
                  => /\ row.rounded_departure_time # None
                     /\ row.wake_up_time
                           = AddSeconds(row.rounded_departure_time, -(minutes * 60))
            /\ row.transit_notify_time # None
                  => /\ row.first_transit_stop_time # None
                     /\ row.transit_notify_time
                           = AddSeconds(row.first_transit_stop_time, -(3 * 60))

\* C22 (SpecPlan): no step changes the origin, the destination, the target
\* basis, the target time or the preparation minutes of a row that is in the
\* table before and after it.
C22_InputsKept ==
    \A a \in DOMAIN alerts \cap DOMAIN alerts' :
        /\ alerts'[a].origin_text = alerts[a].origin_text
        /\ alerts'[a].destination_text = alerts[a].destination_text
        /\ alerts'[a].target_type = alerts[a].target_type
        /\ alerts'[a].target_time = alerts[a].target_time
        /\ alerts'[a].preparation_minutes = alerts[a].preparation_minutes

C22_InputsImmutable == [][C22_InputsKept]_vars

\* C23 (Spec): a recalculation, a notify request of any kind, a cancel, a
\* job's dispatch and the completion check, when the id they are given is
\* not in the table, answer not-found (the jobs go on with their pass),
\* never reach the step that calls the estimator and the delivery, deliver
\* nothing and leave the table as it was.
C23_MissingChangesNothing ==
    /\ \A a \in Ids \ DOMAIN alerts :
          /\ \A api \in ApiAnswers :
                (resp'.op = "recalculate" /\ nops' # nops /\ recalculate_route(a, api))
                => /\ resp' = Resp("recalculate", a, "none", "not_found")
                   /\ alerts' = alerts
                   /\ delivered' = delivered
          /\ (resp'.op = "cancel" /\ nops' # nops /\ cancel_alert(a))
                => /\ resp' = Resp("cancel", a, "none", "not_found")
                   /\ alerts' = alerts
                   /\ delivered' = delivered
          /\ \A k \in Kinds :
                (nops' # nops /\ resp'.op = "notify" /\ notify_begin(a, k))
                => /\ resp' = Resp("notify", a, k, "not_found")
                   /\ pc'["http"] = "idle"
                   /\ call' = call
                   /\ alerts' = alerts
                   /\ delivered' = delivered
    /\ \A k \in Jobs : \A a \in (todo[k] \ todo'[k]) \ DOMAIN alerts :
          \A api \in ApiAnswers, sms_ok \in BOOLEAN :
              job_dispatch(k, a, api, sms_ok)
              => /\ alerts' = alerts
                 /\ delivered' = delivered
                 /\ pc'[k] # "complete"
    /\ \A k \in Jobs :
          (pc[k] = "complete" /\ ~Exists(call[k].id) /\ job_complete(k))
          => alerts' = alerts /\ delivered' = delivered

C23_NotFound == [][C23_MissingChangesNothing]_vars

\* A request for an id that is not in the table has just been answered
\* not-found, while the table holds another alert
C23_Witness ==
    /\ resp.outcome = "not_found"
    /\ resp.op \in {"recalculate", "cancel", "notify"}
    /\ resp.id \in Ids \ DOMAIN alerts
    /\ DOMAIN alerts # {}
    /\ \A k \in Kinds : delivered[resp.id][k] = 0

\* C24 (SpecExtract): the scan returns the departure timestamp, as a time,
\* of the first leg in route order that has transit detail with a
\* departure timestamp, together with that leg's detail, whatever legs
\* follow it; it returns nothing when no leg has both; and a first plan
\* stores the returned time as the first transit stop time.
C24_FirstQualifyingLeg ==
    (probe.tag = "extract" /\ probe.done) =>
        LET steps == probe.steps
            legs == TransitLegs(steps)
        IN  /\ legs # {}
                  => \E i \in legs :
                        /\ \A j \in 1..(i - 1) : j \notin legs
                        /\ probe.out[1] = DateTime(steps[i].departure_time[1], 0)
                        /\ probe.out[2] = Some(steps[i])
            /\ legs = {} => probe.out = <<None, None>>
            /\ probe.stored = probe.out[1]

\* The scan has run over a route of a transit leg without a timestamp, one
\* leaving at 08:50 and one leaving at 09:10, and kept the 08:50 leg
C24_Witness ==
    /\ probe.tag = "extract"
    /\ probe.done
    /\ Len(probe.steps) = 3
    /\ probe.steps[1] = BusNoTime
    /\ probe.steps[2] = Bus(HMS(8, 50, 0))
    /\ probe.steps[3] = Bus(HMS(9, 10, 0))
    /\ probe.out[1] = DateTime(HMS(8, 50, 0), 0)
    /\ probe.out[2] = Some(Bus(HMS(8, 50, 0)))

\* C25 (SpecPoll): the passes do not interleave: the departure pass is not
\* under way while the wake-up pass is, and the transit pass, with its
\* completion check, is not under way while the wake-up or the departure
\* pass is.
C25_PassesSequential ==
    /\ pc["wake_up"] # "idle" => pc["departure"] = "idle" /\ pc["transit"] = "idle"
    /\ pc["departure"] # "idle" => pc["transit"] = "idle"

\* C26 (Spec): a flag of a stored alert is true only if the delivery
\* collaborator has accepted a message of that kind for that alert, and
\* every step that sets a flag is one in which it accepts one.
C26_FlagHasDelivery ==
    \A a \in DOMAIN alerts, k \in Kinds :
        Flag(alerts[a], k) => delivered[a][k] >= 1

C26_FlagSetWithDelivery ==
    \A a \in DOMAIN alerts \cap DOMAIN alerts', k \in Kinds :
        (~Flag(alerts[a], k) /\ Flag(alerts'[a], k))
        => delivered'[a][k] = delivered[a][k] + 1

C26_FlagOnlyAfterDelivery ==
    [] C26_FlagHasDelivery /\ [][C26_FlagSetWithDelivery]_vars

\* A notify request has just succeeded and set the flag, with one message
\* delivered, while the other two flags, nothing delivered for them, are
\* false
C26_Witness ==
    \E a \in DOMAIN alerts, k \in Kinds :
        /\ resp = Resp("notify", a, k, "success")
        /\ Flag(alerts[a], k)
        /\ delivered[a][k] = 1
        /\ \A j \in Kinds \ {k} : ~Flag(alerts[a], j) /\ delivered[a][j] = 0

\* A row with the flag of one kind masked
RowButFlag(row, k) ==
    CASE k = "wake_up" -> [row EXCEPT !.wake_up_sent = FALSE]
      [] k = "departure" -> [row EXCEPT !.departure_sent = FALSE]
      [] k = "transit" -> [row EXCEPT !.transit_sent = FALSE]

\* C27 (Spec): a dispatch step, by a job or by a notify request, leaves
\* every other row as it was, and leaves the addressed row as it was but for
\* the flag of the dispatch's kind, which it may turn true: the other two
\* flags, the status, the inputs and the times are unchanged.
C27_DispatchWritesOnlyFlag ==
    /\ \A k \in Jobs :
          (pc[k] = "loop" /\ todo'[k] # todo[k])
          => /\ DOMAIN alerts' = DOMAIN alerts
             /\ \A b \in DOMAIN alerts :
                   IF b \in todo[k] \ todo'[k]
                   THEN /\ RowButFlag(alerts'[b], k) = RowButFlag(alerts[b], k)
                        /\ Flag(alerts[b], k) => Flag(alerts'[b], k)
                   ELSE alerts'[b] = alerts[b]
    /\ (pc["http"] = "sending" /\ pc'["http"] = "idle")
          => /\ DOMAIN alerts' = DOMAIN alerts
             /\ \A b \in DOMAIN alerts :
                   IF b = call["http"].id
                   THEN /\ RowButFlag(alerts'[b], call["http"].kind)
                              = RowButFlag(alerts[b], call["http"].kind)
                        /\ Flag(alerts[b], call["http"].kind)
                              => Flag(alerts'[b], call["http"].kind)
                   ELSE alerts'[b] = alerts[b]
    /\ (pc["http"] = "idle" /\ resp'.op = "notify" /\ nops' # nops)
          => alerts' = alerts

C27_DispatchFrame == [][C27_DispatchWritesOnlyFlag]_vars

\* A job's transit dispatch has just succeeded for a pending alert whose
\* other two flags are false, another alert being stored: the job is at the
\* completion check, the status still PENDING
C27_Witness ==
    \E a \in DOMAIN alerts :
        /\ pc["transit"] = "complete"
        /\ call["transit"].id = a
        /\ alerts[a].transit_sent
        /\ delivered[a]["transit"] = 1
        /\ ~alerts[a].wake_up_sent
        /\ ~alerts[a].departure_sent
        /\ alerts[a].status = "PENDING"
        /\ DOMAIN alerts # {a}

\* C28 (SpecSend): the step that ends a departure notify request is the
\* same whatever the re-fetched route estimate answers, a failure included:
\* with the row's arrival time set, an accepted delivery delivers one
\* message, answers success and sets departure_sent, and a refused one
\* answers the delivery's failure and changes nothing.
C28_DepartureIgnoresEstimate ==
    \A api \in ApiAnswers, sms_ok \in BOOLEAN :
        (/\ pc["http"] = "sending"
         /\ call["http"].kind = "departure"
         /\ notify_finish(api, sms_ok))
        => /\ \A other \in ApiAnswers : notify_finish(other, sms_ok)
           /\ (call["http"].loaded /\ sms_ok /\ Exists(call["http"].id))
                 => /\ delivered'[call["http"].id]["departure"]
                          = delivered[call["http"].id]["departure"] + 1
                    /\ resp' = Resp("notify", call["http"].id, "departure", "success")
                    /\ alerts'[call["http"].id].departure_sent
           /\ (call["http"].loaded /\ ~sms_ok)
                 => /\ delivered' = delivered
                    /\ alerts' = alerts
                    /\ resp' = Resp("notify", call["http"].id, "departure", "failure")

C28_DepartureOutcome == [][C28_DepartureIgnoresEstimate]_vars

\* A departure notify request whose re-fetched estimate failed has just
\* delivered its message, answered success and set the flag
C28_Witness ==
    /\ probe.tag = "sent"
    /\ probe.kind = "departure"
    /\ ~probe.route_ok
    /\ probe.sms_ok
    /\ resp = Resp("notify", probe.id, "departure", "success")
    /\ Exists(probe.id)
    /\ alerts[probe.id].departure_sent
    /\ delivered[probe.id]["departure"] = 1

\* C29 (SpecPick): a job's pass holds only alerts that, when the pass
\* selected them, had status PENDING, the kind's flag false and a trigger
\* time not after the clock; a job dispatches only alerts of its pass; so
\* every delivery by a job is made at a time not before the trigger time
\* the alert had when it was selected.
C29_PassHoldsSelected ==
    probe.tag = "pick" =>
        \A k \in Jobs : \A a \in todo[k] :
            /\ probe.at[k][a] # None
            /\ DtLeq(probe.at[k][a], now)

C29_SelectedWereDue ==
    \A k \in Jobs :
        /\ (pc[k] = "idle" /\ pc'[k] = "loop")
              => \A a \in todo'[k] :
                    /\ a \in DOMAIN alerts
                    /\ alerts[a].status = "PENDING"
                    /\ ~Flag(alerts[a], k)
                    /\ TriggerTime(alerts[a], k) # None
                    /\ DtLeq(TriggerTime(alerts[a], k), now)
                    /\ probe'.at[k][a] = TriggerTime(alerts[a], k)
        /\ \A a \in Ids :
              delivered'[a][k] # delivered[a][k]
              => /\ pc[k] = "loop"
                 /\ a \in todo[k]
                 /\ a \notin todo'[k]
                 /\ probe.at[k][a] # None
                 /\ DtLeq(probe.at[k][a], now)

C29_PollNeverEarly == [] C29_PassHoldsSelected /\ [][C29_SelectedWereDue]_vars

\* A job has delivered the message of an alert it had selected at its
\* trigger time or later; the alert was cancelled after the selection
C29_Witness ==
    /\ probe.tag = "pick"
    /\ \E a \in DOMAIN alerts, k \in Jobs :
          /\ delivered[a][k] = 1
          /\ Flag(alerts[a], k)
          /\ probe.at[k][a] # None
          /\ DtLeq(probe.at[k][a], now)
          /\ alerts[a].status = "CANCELLED"

\* C30 (SpecSeq): a notify request for a stored alert whose flag of the
\* kind is false goes on to the external calls whatever the alert's status
\* and whether or not the kind's trigger time has come; and when the
\* message can be composed and its delivery is accepted, the request
\* delivers it, answers success and sets the flag.
C30_GoesOnWhenFlagFalse ==
    /\ \A a \in DOMAIN alerts, k \in Kinds :
          (~Flag(alerts[a], k) /\ nops' # nops /\ notify_begin(a, k))
          => /\ pc'["http"] = "sending"
             /\ call'["http"].id = a
             /\ call'["http"].kind = k
    /\ \A api \in ApiAnswers :
          (/\ pc["http"] = "sending"
           /\ Exists(call["http"].id)
           /\ Sends(call["http"].kind, call["http"].loaded, api)
           /\ notify_finish(api, TRUE))
          => /\ resp' = Resp("notify", call["http"].id, call["http"].kind, "success")
             /\ Flag(alerts'[call["http"].id], call["http"].kind)
             /\ delivered'[call["http"].id][call["http"].kind]
                   = delivered[call["http"].id][call["http"].kind] + 1
             /\ alerts'[call["http"].id].status = alerts[call["http"].id].status

C30_DirectDispatchGuards == [][C30_GoesOnWhenFlagFalse]_vars

\* A notify request has just delivered the message of a cancelled alert
\* before its trigger time, and set the flag
C30_Witness ==
    \E a \in DOMAIN alerts, k \in Kinds :
        /\ resp = Resp("notify", a, k, "success")
        /\ alerts[a].status = "CANCELLED"
        /\ Flag(alerts[a], k)
        /\ delivered[a][k] = 1
        /\ TriggerTime(alerts[a], k) # None
        /\ ~DtLeq(TriggerTime(alerts[a], k), now)

=============================================================================
